---- MODULE Spec2Model ----
(***************************************************************************)
(* Model of the declare application's database layer (db_handler.py) and   *)
(* of the bulk declaration writer (pages/test_declare.py).                 *)
(*                                                                         *)
(*   - connection manager: one cached psycopg2 connection per Streamlit    *)
(*     session (_get_conn_for_session, DatabaseManager.__init__,           *)
(*     _ensure_live_conn);                                                 *)
(*   - query facade: _fetch_df / _execute with their reconnect-and-retry   *)
(*     handlers;                                                           *)
(*   - bulk writer: _validate_rows and bulk_insert_declarations;           *)
(*   - session end: the on_session_end hook and _safe_close;               *)
(*   - check_foreign_key_references;                                       *)
(*   - the session state of the two declaration pages                      *)
(*     (pages/Multi_Declare.py, pages/test_declare.py).                    *)
(*                                                                         *)
(* Each database interaction of a facade call is one step, so that the     *)
(* server can drop a connection between two of them.  A call runs to its   *)
(* end before another session's handler starts: the sessions share only    *)
(* the resource cache, which a call reads right after clearing it.         *)
(***************************************************************************)
EXTENDS Integers, Sequences, FiniteSets, TLC

\* ------------------------------------------------------------------ bounds

\* Number of connections that can be open or held at the same time.
MaxConns == 3

\* Longest input batch handed to bulk_insert_declarations.
MaxRows == 2

\* Most rows a query of fetch_data returns.
MaxFetched == 1

\* Largest quantity of a cart or staged line.
MaxQty == 2

\* Number of tables that may declare a foreign key onto the referenced one.
MaxTables == 2

\* ------------------------------------------------------------- identities

Sessions == {"s1", "s2"}

NoSession == "none"

Handles == 1..MaxConns

NoConn == 0

VARIABLES
    conns,      \* connection handle -> state of that psycopg2 connection
    cache,      \* st.cache_resource of _get_conn_for_session: session -> handle
    mgr,        \* session -> self.conn of the session's DatabaseManager
    lastAcq,    \* session -> handle returned by its latest acquisition
    call,       \* the facade call in progress: its session and its frame
    rows,       \* the batch given to bulk_insert_declarations
    bulk,       \* the bulk writer's frame: pc, validated values, result, ...
    proc,       \* the process: the shared connector, session-end hooks, ended sessions
    fk,         \* check_foreign_key_references: the schema, its arguments, its frame
    page        \* the session state of a declaration page

vars == <<conns, cache, mgr, lastAcq, call, rows, bulk, proc, fk, page>>

\* ------------------------------------------------------------ connections

\* A handle that connector.connect() has not produced yet.
Unborn == [st |-> "none", broken |-> FALSE, txn |-> "idle", write |-> FALSE,
           owner |-> NoSession]

\* The connection connector.connect() returns: open, no transaction,
\* autocommit off.
Opened(s) == [st |-> "open", broken |-> FALSE, txn |-> "idle", write |-> FALSE,
              owner |-> s]

\* psycopg2 marks a connection closed once an operation finds it lost; the
\* server has dropped whatever transaction it held.
Lost(c) == [c EXCEPT !.st = "closed", !.broken = FALSE, !.txn = "idle",
                     !.write = FALSE]

\* conn.closed == 0 and the server side is still there.
Live(c) == c.st = "open" /\ ~c.broken

\* The handle is open and `SELECT 1` on it would succeed.
PassesProbe(c) == Live(c) /\ c.txn # "aborted"

HasFree(cns) == \E h \in Handles : cns[h].st = "none"

FreshHandle(cns) ==
    CHOOSE h \in Handles :
        /\ cns[h].st = "none"
        /\ \A g \in Handles : g < h => cns[g].st # "none"

\* _get_conn_for_session.clear(): drops every entry of the resource cache.
ClearCache(cch) == [s \in Sessions |-> NoConn]

\* _get_conn_for_session(session_key, ...): the cached handle of the key, or
\* a new connection that is cached under it.  `up` is whether
\* connector.connect() succeeds.
GetConnForSession(s, cch, cns, up) ==
    IF cch[s] # NoConn
    THEN [h |-> cch[s], cache |-> cch, conns |-> cns, raised |-> FALSE]
    ELSE IF up /\ HasFree(cns)
    THEN LET h == FreshHandle(cns) IN
         [h |-> h,
          cache |-> [cch EXCEPT ![s] = h],
          conns |-> [cns EXCEPT ![h] = Opened(s)],
          raised |-> FALSE]
    ELSE [h |-> NoConn, cache |-> cch, conns |-> cns, raised |-> TRUE]

\* How a statement ends on connection c.  On a closed or lost connection it
\* raises OperationalError/InterfaceError ("transient"); in a failed
\* transaction it raises InFailedSqlTransaction, which is no connection
\* error ("permanent"); otherwise the database decides (`env`): the
\* statement succeeds, violates a constraint ("permanent"), or is refused
\* with an OperationalError that leaves the connection up, such as a
\* deadlock or a cancelled statement ("transient").
StmtEnv == {"ok", "permanent", "transient"}

StmtOutcome(c, env) ==
    IF ~Live(c) THEN "transient"
    ELSE IF c.txn = "aborted" THEN "permanent"
    ELSE env

\* The connection after the statement.  psycopg2 closes a connection it
\* finds lost; an error raised by the server leaves the transaction failed
\* until it is rolled back.
AfterStmt(c, env, isWrite) ==
    IF ~Live(c) THEN Lost(c)
    ELSE IF StmtOutcome(c, env) = "ok"
    THEN [c EXCEPT !.txn = "open", !.write = c.write \/ isWrite]
    ELSE [c EXCEPT !.txn = "aborted", !.write = c.write \/ isWrite]

\* How conn.commit() ends on a connection that is up: acknowledged, or the
\* connection drops after the server applied it.  (A connection that
\* dropped before the commit applies nothing.)
CommitEnv == {"ok", "lost_applied"}

\* conn.commit() / conn.rollback() on a healthy connection.
Ended(c) == [c EXCEPT !.txn = "idle", !.write = FALSE]

\* Handles some session still holds: in a handler, in the cache, or as its
\* latest acquisition.
Held(m, cch, la) ==
    {h \in Handles : \E s \in Sessions : h \in {m[s], cch[s], la[s]}}

\* An order of the sessions, to list leaked connections in.
SessionRank ==
    CHOOSE f \in [Sessions -> 1..Cardinality(Sessions)] :
        \A a, b \in Sessions : a # b => f[a] # f[b]

\* A connection object nothing refers to any more cannot be used again.  If
\* it was closed it is gone and its handle is free for a later connection;
\* if it is still open it stays open at the server (a leaked connection),
\* and only that and its owner are kept.  Which handles the leaked
\* connections have no longer matters, nor how many a session has leaked:
\* one per owner is kept, on the highest unheld handles, in the order of
\* the owners.
Tidy(cns, m, cch, la) ==
    LET free == Handles \ Held(m, cch, la)
        leakers == {cns[h].owner : h \in {g \in free : cns[g].st = "open"}}
        above(h) == Cardinality({g \in free : g > h})
        before(s) == Cardinality({r \in leakers :
                                     SessionRank[r] < SessionRank[s]})
        owns(s, h) == s \in leakers /\ above(h) = before(s) IN
    [h \in Handles |->
        IF h \notin free THEN cns[h]
        ELSE IF \E s \in Sessions : owns(s, h)
        THEN Opened(CHOOSE s \in Sessions : owns(s, h))
        ELSE Unborn]

\* ---------------------------------------------------------------- process

\* The process when it starts: the Connector of _get_connector is usable and
\* no session has ended.  `hooks` is whether st.on_session_end registers the
\* callback it is given; where it raises instead, _get_conn_for_session
\* swallows the exception and no hook exists.  `refused` names a session
\* whose connect failed on a closed Connector while the database was
\* reachable.
ProcStart(hooks) == [hooks |-> hooks, connector |-> "open", ended |-> {},
                     refused |-> NoSession]

\* connector.connect() succeeds: the database is reachable (`up`) and the
\* Connector has not been closed.
ConnectUp(up) == up /\ proc.connector = "open"

\* The process after session s tried to connect (if it did).
AfterConnect(s, attempted, up) ==
    IF attempted /\ up /\ proc.connector = "closed"
    THEN [proc EXCEPT !.refused = s]
    ELSE proc

\* _safe_close(conn, connector) on connection c: conn.close() if
\* conn.closed == 0; errors are swallowed.
SafeClose(c) == IF c.st = "open" THEN Lost(c) ELSE c

\* The connections whose session-end hook belongs to session s: those that
\* _get_conn_for_session created for it.
HookedConns(s) ==
    {h \in Handles : conns[h].st # "none" /\ conns[h].owner = s}

\* ------------------------------------------------------------ facade call

\* None: what execute_command returns, and what a call that raised returns.
NoResult == [kind |-> "none", nrows |-> 0, named |-> FALSE]

RowCounts == 0..MaxFetched

\* A _fetch_df that would return None for an empty result set.
FetchResult_None(n) ==
    IF n = 0 THEN [kind |-> "none", nrows |-> 0, named |-> FALSE]
    ELSE [kind |-> "table", nrows |-> n, named |-> TRUE]

\* `pd.DataFrame(rows, columns=cols) if rows else pd.DataFrame()`: a table
\* of the n rows fetched, with the query's column names unless it is empty.
FetchResult(n) == [kind |-> "table", nrows |-> n, named |-> n > 0]

\* The frame of a facade call.  pc is the place in _fetch_df / _execute;
\* the other fields record what the call has done so far:
\*   execs    cur.execute(query) calls made
\*   retries  entries into the reconnect-and-retry handler
\*   applied  commits of the statement the server has applied
\*   first    how the first attempt ended
\*   permAt   the attempt (1, 2) whose statement raised a non-connection error
\*   c1       the connection of the first attempt
\*   fresh2   the second attempt ran on a connection built by the handler
\*   faulted  the environment made a connect or a statement of the call fail
\*   start    the handler's connection when the call began
\*   got      rows the query of a fetch returned (-1: none yet)
\*   result   the value the call returns
Idle == [pc |-> "idle", op |-> "none", execs |-> 0, retries |-> 0,
         applied |-> 0, first |-> "none", permAt |-> 0, c1 |-> NoConn,
         fresh2 |-> FALSE, faulted |-> FALSE, start |-> "none",
         got |-> -1, result |-> NoResult]

NoCall == [s |-> NoSession, fr |-> Idle]

Ops == {"fetch", "exec"}

\* The program state a call works on, with the call's frame.
Local == [conns |-> conns, cache |-> cache, mgr |-> mgr,
          lastAcq |-> lastAcq, fr |-> call.fr]

\* One acquisition through _get_conn_for_session by session s, on state L
\* with the cache as `cch` and the connections as `cns`.
Acquire(L, s, cch, cns, up) ==
    LET r == GetConnForSession(s, cch, cns, up) IN
    [L EXCEPT
        !.cache = r.cache,
        !.conns = r.conns,
        !.mgr = IF r.raised THEN @ ELSE [@ EXCEPT ![s] = r.h],
        !.lastAcq = IF r.raised THEN @ ELSE [@ EXCEPT ![s] = r.h]]

\* A handler that would catch a connection error of the second attempt and
\* reconnect again.
OnRetryFailure_Again(kind) ==
    IF kind = "transient" THEN "rebuild" ELSE "raised"

\* Where an exception raised inside the `except (OperationalError,
\* InterfaceError)` handler goes: out of the call.
OnRetryFailure(kind) == "raised"

\* The frame of a fetch_data / execute_command call entering _fetch_df /
\* _execute.
Entered(s, op) ==
    [Idle EXCEPT !.pc = "ensure", !.op = op,
                 !.start = IF ~Live(conns[mgr[s]]) THEN "dead"
                           ELSE IF conns[mgr[s]].txn = "aborted" THEN "aborted"
                           ELSE "live"]

\* _ensure_live_conn.  `up`: connector.connect() succeeds.
EnsureLiveConn(L, s, up) ==
    LET c == L.mgr[s] IN
    IF ~Live(L.conns[c])
    THEN \* conn.closed != 0, or SELECT 1 raises a connection error: clear
         \* the cache and take a new connection
         LET A == Acquire(L, s, ClearCache(L.cache),
                          [L.conns EXCEPT ![c] = Lost(@)], up)
             failed == A.mgr[s] = c IN
         [A EXCEPT !.fr.pc = IF failed THEN "raised" ELSE "try1",
                   !.fr.faulted = @ \/ failed]
    ELSE IF L.conns[c].txn = "aborted"
    THEN \* SELECT 1 raises InFailedSqlTransaction, which is not caught
         [L EXCEPT !.fr.pc = "raised"]
    ELSE \* SELECT 1 succeeds (and opens a transaction)
         [L EXCEPT !.conns[c] = AfterStmt(@, "ok", FALSE),
                   !.fr.pc = "try1"]

\* First attempt: cur.execute(query) on self.conn.
FirstAttempt(L, s, env) ==
    LET c == L.mgr[s]
        out == StmtOutcome(L.conns[c], env)
        isWrite == L.fr.op = "exec" IN
    [L EXCEPT
        !.conns[c] = AfterStmt(@, env, isWrite),
        !.fr.execs = @ + 1,
        !.fr.c1 = c,
        !.fr.first = out,
        !.fr.permAt = IF out = "permanent" THEN 1 ELSE @,
        !.fr.faulted = @ \/ (out # "ok" /\ Live(L.conns[c])),
        !.fr.pc = CASE out = "ok" /\ isWrite -> "commit1"
                    [] out = "ok" /\ ~isWrite -> "returned"
                    [] out = "transient" -> "rebuild"
                    [] OTHER -> "rollback"]

\* self.conn.commit() of the first attempt.
FirstCommit(L, s, cm) ==
    LET c == L.mgr[s] IN
    IF Live(L.conns[c]) /\ cm = "ok"
    THEN [L EXCEPT !.conns[c] = Ended(@),
                   !.fr.applied = @ + 1,
                   !.fr.pc = "returned"]
    ELSE [L EXCEPT !.conns[c] = Lost(@),
                   !.fr.applied = IF Live(L.conns[c]) THEN @ + 1 ELSE @,
                   !.fr.first = "transient",
                   !.fr.faulted = @ \/ Live(L.conns[c]),
                   !.fr.pc = "rebuild"]

\* `except Exception: self.conn.rollback(); raise` of the first attempt.
RollbackAndRaise(L, s) ==
    LET c == L.mgr[s] IN
    [L EXCEPT !.conns[c] = IF Live(@) THEN Ended(@) ELSE Lost(@),
              !.fr.pc = "raised"]

\* `except (OperationalError, InterfaceError)`: clear the cache and take a
\* new connection for the session.
Rebuild(L, s, up) ==
    LET c == L.mgr[s]
        A == Acquire(L, s, ClearCache(L.cache), L.conns, up)
        failed == A.mgr[s] = c IN
    [A EXCEPT !.fr.retries = @ + 1,
              !.fr.faulted = @ \/ failed,
              !.fr.pc = IF failed THEN OnRetryFailure("connect") ELSE "try2"]

\* Second attempt, inside the handler: cur.execute(query) on the rebuilt
\* connection.
SecondAttempt(L, s, env) ==
    LET c == L.mgr[s]
        out == StmtOutcome(L.conns[c], env)
        isWrite == L.fr.op = "exec" IN
    [L EXCEPT
        !.conns[c] = AfterStmt(@, env, isWrite),
        !.fr.execs = @ + 1,
        !.fr.fresh2 = (c # L.fr.c1),
        !.fr.c1 = NoConn,
        !.fr.permAt = IF out = "permanent" THEN 2 ELSE @,
        !.fr.faulted = @ \/ (out # "ok" /\ Live(L.conns[c])),
        !.fr.pc = CASE out = "ok" /\ isWrite -> "commit2"
                    [] out = "ok" /\ ~isWrite -> "returned"
                    [] OTHER -> OnRetryFailure(out)]

\* self.conn.commit() of the second attempt.
SecondCommit(L, s, cm) ==
    LET c == L.mgr[s] IN
    IF Live(L.conns[c]) /\ cm = "ok"
    THEN [L EXCEPT !.conns[c] = Ended(@),
                   !.fr.applied = @ + 1,
                   !.fr.pc = "returned"]
    ELSE [L EXCEPT !.conns[c] = Lost(@),
                   !.fr.applied = IF Live(L.conns[c]) THEN @ + 1 ELSE @,
                   !.fr.faulted = @ \/ Live(L.conns[c]),
                   !.fr.pc = OnRetryFailure("transient")]

\* cur.fetchall() and the return statement of _fetch_df, after a
\* cur.execute that succeeded with n rows.
Fetched(L, n) ==
    IF L.fr.op = "fetch" /\ L.fr.pc = "returned"
    THEN [L EXCEPT !.fr.got = n, !.fr.result = FetchResult(n)]
    ELSE L

\* The state a step of the call leaves.
Becomes(L) ==
    /\ cache' = L.cache
    /\ mgr' = L.mgr
    /\ lastAcq' = L.lastAcq
    /\ conns' = Tidy(L.conns, mgr', cache', lastAcq')
    /\ call' = [call EXCEPT !.fr = L.fr]

At(pc) == call.s # NoSession /\ call.fr.pc = pc

DoEnsureLiveConn ==
    /\ At("ensure")
    /\ \E up \in BOOLEAN :
         /\ Becomes(EnsureLiveConn(Local, call.s, ConnectUp(up)))
         /\ proc' = AfterConnect(call.s, ~Live(conns[mgr[call.s]]), up)
    /\ UNCHANGED <<rows, bulk, fk, page>>

DoFirstAttempt ==
    /\ At("try1")
    /\ \E env \in StmtEnv, n \in RowCounts :
         Becomes(Fetched(FirstAttempt(Local, call.s, env), n))
    /\ UNCHANGED <<rows, bulk, proc, fk, page>>

DoFirstCommit ==
    /\ At("commit1")
    /\ \E cm \in CommitEnv : Becomes(FirstCommit(Local, call.s, cm))
    /\ UNCHANGED <<rows, bulk, proc, fk, page>>

DoRollbackAndRaise ==
    /\ At("rollback")
    /\ Becomes(RollbackAndRaise(Local, call.s))
    /\ UNCHANGED <<rows, bulk, proc, fk, page>>

DoRebuild ==
    /\ At("rebuild")
    /\ \E up \in BOOLEAN :
         /\ Becomes(Rebuild(Local, call.s, ConnectUp(up)))
         /\ proc' = AfterConnect(call.s, TRUE, up)
    /\ UNCHANGED <<rows, bulk, fk, page>>

DoSecondAttempt ==
    /\ At("try2")
    /\ \E env \in StmtEnv, n \in RowCounts :
         Becomes(Fetched(SecondAttempt(Local, call.s, env), n))
    /\ UNCHANGED <<rows, bulk, proc, fk, page>>

DoSecondCommit ==
    /\ At("commit2")
    /\ \E cm \in CommitEnv : Becomes(SecondCommit(Local, call.s, cm))
    /\ UNCHANGED <<rows, bulk, proc, fk, page>>

\* DatabaseManager.__init__: a script run builds the page's handler, which
\* takes the session's connection from the cache.
NewManager(s) ==
    /\ call = NoCall
    /\ s \notin proc.ended
    /\ \E up \in BOOLEAN :
         LET A == Acquire(Local, s, cache, conns, ConnectUp(up))
             failed == cache[s] = NoConn /\ ~(ConnectUp(up) /\ HasFree(conns)) IN
         /\ proc' = AfterConnect(s, cache[s] = NoConn, up)
         /\ cache' = A.cache
         /\ mgr' = IF failed THEN [mgr EXCEPT ![s] = NoConn] ELSE A.mgr
         /\ lastAcq' = A.lastAcq
         /\ conns' = Tidy(A.conns, mgr', cache', lastAcq')
    /\ UNCHANGED <<call, rows, bulk, fk, page>>

\* fetch_data / execute_command is called on the session's handler.
BeginCall(s) ==
    /\ call = NoCall
    /\ s \notin proc.ended
    /\ mgr[s] # NoConn
    /\ \E op \in Ops : call' = [s |-> s, fr |-> Entered(s, op)]
    /\ UNCHANGED <<conns, cache, mgr, lastAcq, rows, bulk, proc, fk, page>>

\* The caller takes the result (or the exception) of the call.
FinishCall ==
    /\ call.s # NoSession
    /\ call.fr.pc \in {"returned", "raised"}
    /\ call' = NoCall
    /\ UNCHANGED <<conns, cache, mgr, lastAcq, rows, bulk, proc, fk, page>>

\* The server or the network drops a connection a session still holds.
DropConn(h) ==
    /\ h \in Held(mgr, cache, lastAcq)
    /\ Live(conns[h])
    /\ conns' = [conns EXCEPT ![h].broken = TRUE]
    /\ call' = IF call.s # NoSession /\ mgr[call.s] = h
               THEN [call EXCEPT !.fr.faulted = TRUE]
               ELSE call
    /\ UNCHANGED <<cache, mgr, lastAcq, rows, bulk, proc, fk, page>>

\* The session of s ends.  Its handler goes with its session state; the
\* resource cache is the process's and keeps its entry.  Where hooks exist,
\* the hook of every connection created for the session runs _safe_close,
\* which also closes the Connector all sessions share.
SessionEnd(s) ==
    /\ s \notin proc.ended
    /\ call.s # s
    /\ LET ran == proc.hooks /\ HookedConns(s) # {}
           closed == [h \in Handles |->
                        IF ran /\ h \in HookedConns(s) THEN SafeClose(conns[h])
                        ELSE conns[h]] IN
       /\ mgr' = [mgr EXCEPT ![s] = NoConn]
       /\ lastAcq' = [lastAcq EXCEPT ![s] = NoConn]
       /\ conns' = Tidy(closed, mgr', cache, lastAcq')
       /\ proc' = [proc EXCEPT
                     !.ended = @ \cup {s},
                     !.connector = IF ran THEN "closed" ELSE @]
    /\ UNCHANGED <<cache, call, rows, bulk, fk, page>>

\* ------------------------------------------------------------ bulk writer

\* The session whose page calls bulk_insert_declarations.
Writer == "s1"

\* Python values a row's fields can hold: an int, a string of digits, any
\* other text, None.
PyInt(n) == [t |-> "int", v |-> n]

PyDigits(n) == [t |-> "digits", v |-> n]

PyText == [t |-> "text", v |-> 0]

PyNone == [t |-> "none", v |-> 0]

\* int(x): the number, or an exception (ValueError for text, TypeError for
\* None).
IntOf(x) ==
    IF x.t \in {"int", "digits"} THEN [ok |-> TRUE, v |-> x.v]
    ELSE [ok |-> FALSE, v |-> 0]

\* bool(x): None, 0 and the empty string are false.
Truthy(x) ==
    CASE x.t = "int" -> x.v # 0
      [] x.t = "none" -> FALSE
      [] OTHER -> TRUE

\* A locid is None or a string, held as its characters.
LocNone == [t |-> "none", s |-> <<>>]

LocStr(s) == [t |-> "str", s |-> s]

RECURSIVE LStrip(_)
LStrip(s) ==
    IF s = <<>> THEN s
    ELSE IF Head(s) = " " THEN LStrip(Tail(s))
    ELSE s

RECURSIVE RStrip(_)
RStrip(s) ==
    IF s = <<>> THEN s
    ELSE IF s[Len(s)] = " " THEN RStrip(SubSeq(s, 1, Len(s) - 1))
    ELSE s

\* str.strip()
Strip(s) == RStrip(LStrip(s))

\* str(r.get("locid") or "").strip()
LocOf(x) == IF x.t = "none" THEN <<>> ELSE Strip(x.s)

\* The rows input batches are made of.
RowPool ==
    { [itemid |-> PyInt(1), qty |-> PyInt(1), locid |-> LocStr(<<"A">>)],
      [itemid |-> PyDigits(2), qty |-> PyDigits(2),
       locid |-> LocStr(<<" ", "B", " ">>)],
      [itemid |-> PyInt(0), qty |-> PyInt(1), locid |-> LocStr(<<"A">>)],
      [itemid |-> PyText, qty |-> PyInt(1), locid |-> LocStr(<<"A">>)],
      [itemid |-> PyInt(1), qty |-> PyNone, locid |-> LocStr(<<"A">>)],
      [itemid |-> PyInt(1), qty |-> PyInt(-1), locid |-> LocStr(<<"A">>)],
      [itemid |-> PyInt(1), qty |-> PyText, locid |-> LocStr(<<"A">>)],
      [itemid |-> PyInt(1), qty |-> PyInt(1), locid |-> LocStr(<<" ">>)],
      [itemid |-> PyInt(1), qty |-> PyInt(1), locid |-> LocNone] }

Batches == UNION {[1..n -> RowPool] : n \in 0..MaxRows}

\* A message of the outcome's errors list: what it is about, the row number
\* it names, the values it quotes.
Msg(kind, row, vals) == [kind |-> kind, row |-> row, vals |-> vals]

\* A loop body that would skip a row with an empty locid without a message.
ValidateRow_DropsBlankLocid(r, i) ==
    IF ~IntOf(r.itemid).ok
    THEN [raised |-> FALSE, valid |-> <<>>,
          errs |-> <<Msg("itemid", i, <<>>)>>]
    ELSE LET q == IF Truthy(r.qty) THEN r.qty ELSE PyInt(0)
             locid == LocOf(r.locid) IN
         IF ~IntOf(q).ok
         THEN [raised |-> TRUE, valid |-> <<>>, errs |-> <<>>]
         ELSE IF IntOf(q).v <= 0
         THEN [raised |-> FALSE, valid |-> <<>>,
               errs |-> <<Msg("qty", i, <<IntOf(q).v>>)>>]
         ELSE IF locid = <<>>
         THEN [raised |-> FALSE, valid |-> <<>>, errs |-> <<>>]
         ELSE [raised |-> FALSE,
               valid |-> <<[itemid |-> IntOf(r.itemid).v, qty |-> IntOf(q).v,
                            locid |-> locid, src |-> i]>>,
               errs |-> <<>>]

\* A loop body that would not skip a row with qty <= 0.
ValidateRow_KeepsBadQty(r, i) ==
    IF ~IntOf(r.itemid).ok
    THEN [raised |-> FALSE, valid |-> <<>>,
          errs |-> <<Msg("itemid", i, <<>>)>>]
    ELSE LET q == IF Truthy(r.qty) THEN r.qty ELSE PyInt(0)
             locid == LocOf(r.locid) IN
         IF ~IntOf(q).ok
         THEN [raised |-> TRUE, valid |-> <<>>, errs |-> <<>>]
         ELSE IF locid = <<>>
         THEN [raised |-> FALSE, valid |-> <<>>,
               errs |-> <<Msg("locid", i, <<>>)>>]
         ELSE [raised |-> FALSE,
               valid |-> <<[itemid |-> IntOf(r.itemid).v, qty |-> IntOf(q).v,
                            locid |-> locid, src |-> i]>>,
               errs |-> <<>>]

\* The body of _validate_rows' loop for row r, the i-th of the input: the
\* row it appends to valid or the message it appends to errs, or the
\* exception int() raises on the quantity.  src is the row's place in the
\* input, which the code does not keep.
ValidateRow(r, i) ==
    IF ~IntOf(r.itemid).ok
    THEN [raised |-> FALSE, valid |-> <<>>,
          errs |-> <<Msg("itemid", i, <<>>)>>]
    ELSE LET q == IF Truthy(r.qty) THEN r.qty ELSE PyInt(0)
             locid == LocOf(r.locid) IN
         IF ~IntOf(q).ok
         THEN [raised |-> TRUE, valid |-> <<>>, errs |-> <<>>]
         ELSE IF IntOf(q).v <= 0
         THEN [raised |-> FALSE, valid |-> <<>>,
               errs |-> <<Msg("qty", i, <<IntOf(q).v>>)>>]
         ELSE IF locid = <<>>
         THEN [raised |-> FALSE, valid |-> <<>>,
               errs |-> <<Msg("locid", i, <<>>)>>]
         ELSE [raised |-> FALSE,
               valid |-> <<[itemid |-> IntOf(r.itemid).v, qty |-> IntOf(q).v,
                            locid |-> locid, src |-> i]>>,
               errs |-> <<>>]

\* _validate_rows from row i on.
RECURSIVE ValidateFrom(_, _, _, _)
ValidateFrom(rs, i, valid, errs) ==
    IF i > Len(rs) THEN [raised |-> FALSE, valid |-> valid, errs |-> errs]
    ELSE LET v == ValidateRow(rs[i], i) IN
         IF v.raised THEN [raised |-> TRUE, valid |-> <<>>, errs |-> <<>>]
         ELSE ValidateFrom(rs, i + 1, valid \o v.valid, errs \o v.errs)

ValidateRows(rs) == ValidateFrom(rs, 1, <<>>, <<>>)

\* The values tuple built from a validated row.
Values(r) == <<r.itemid, r.qty, r.locid>>

\* The frame of bulk_insert_declarations: result is ok, failed, errors;
\* nok and nbad are the fallback loop's ok and bad, idx its position.
\* sent (the inserts issued, each with the input row it comes from),
\* outcomes (how each issued insert ended) and faulted (the database failed
\* some insert) record what happened.
BulkStart == [pc |-> "start", values |-> <<>>, ok |-> 0, failed |-> 0,
              errors |-> <<>>, nok |-> 0, nbad |-> 0, idx |-> 0,
              sent |-> <<>>, outcomes |-> <<>>, faulted |-> FALSE]

NoBulk == [BulkStart EXCEPT !.pc = "off"]

\* bulk_insert_declarations up to the bulk attempt: the empty batch, and
\* _validate_rows with what the code does with its result.
BulkValidate ==
    /\ bulk.pc = "start"
    /\ bulk' =
         IF rows = <<>> THEN [bulk EXCEPT !.pc = "done"]
         ELSE LET v == ValidateRows(rows) IN
              IF v.raised THEN [bulk EXCEPT !.pc = "raised"]
              ELSE IF v.valid = <<>>
              THEN [bulk EXCEPT !.errors = v.errs,
                                !.failed = Len(v.errs),
                                !.pc = "done"]
              ELSE [bulk EXCEPT !.errors = v.errs,
                                !.values = v.valid,
                                !.pc = "bulk"]
    /\ UNCHANGED <<conns, cache, mgr, lastAcq, call, rows, proc, fk, page>>

\* The fast path: self.execute_many(sql, values).  DatabaseManager defines
\* no execute_many, so the attribute lookup raises AttributeError before
\* anything is sent; the handler records it and the fallback begins.
BulkAttempt ==
    /\ bulk.pc = "bulk"
    /\ bulk' = [bulk EXCEPT !.errors = Append(@, Msg("bulk", 0, <<>>)),
                            !.idx = 1,
                            !.pc = "rows"]
    /\ UNCHANGED <<conns, cache, mgr, lastAcq, call, rows, proc, fk, page>>

\* The fallback loop issues self.execute_command(sql, tup) for the next row.
RowBegin ==
    /\ bulk.pc = "rows"
    /\ bulk.idx <= Len(bulk.values)
    /\ call = NoCall
    /\ call' = [s |-> Writer, fr |-> Entered(Writer, "exec")]
    /\ bulk' = [bulk EXCEPT !.sent = Append(@, bulk.values[bulk.idx]),
                            !.pc = "rowcall"]
    /\ UNCHANGED <<conns, cache, mgr, lastAcq, rows, proc, fk, page>>

\* A fallback loop that would give up at the first failed row.
RowDone_StopsAtFailure(b, raised) ==
    IF raised
    THEN [b EXCEPT
            !.nbad = @ + 1,
            !.errors = Append(@, Msg("row", b.idx, Values(b.values[b.idx]))),
            !.idx = Len(b.values) + 1,
            !.pc = "rows"]
    ELSE [b EXCEPT !.nok = @ + 1, !.idx = @ + 1, !.pc = "rows"]

\* A fallback loop that would count a failed row without a message.
RowDone_Silent(b, raised) ==
    IF raised
    THEN [b EXCEPT !.nbad = @ + 1, !.idx = @ + 1, !.pc = "rows"]
    ELSE [b EXCEPT !.nok = @ + 1, !.idx = @ + 1, !.pc = "rows"]

\* The fallback loop's bookkeeping for the row whose insert just ended.
RowDone(b, raised) ==
    IF raised
    THEN [b EXCEPT
            !.nbad = @ + 1,
            !.errors = Append(@, Msg("row", b.idx, Values(b.values[b.idx]))),
            !.idx = @ + 1,
            !.pc = "rows"]
    ELSE [b EXCEPT !.nok = @ + 1, !.idx = @ + 1, !.pc = "rows"]

\* execute_command returned or raised: the loop goes on with the next row.
RowEnd ==
    /\ bulk.pc = "rowcall"
    /\ call.s = Writer
    /\ call.fr.pc \in {"returned", "raised"}
    /\ bulk' = [RowDone(bulk, call.fr.pc = "raised") EXCEPT
                  !.outcomes = Append(@, call.fr.pc),
                  !.faulted = @ \/ call.fr.faulted]
    /\ call' = NoCall
    /\ UNCHANGED <<conns, cache, mgr, lastAcq, rows, proc, fk, page>>

\* After the loop: result["ok"] += ok; result["failed"] += bad; return.
BulkReturn ==
    /\ bulk.pc = "rows"
    /\ bulk.idx > Len(bulk.values)
    /\ bulk' = [bulk EXCEPT !.ok = @ + bulk.nok,
                            !.failed = @ + bulk.nbad,
                            !.pc = "done"]
    /\ UNCHANGED <<conns, cache, mgr, lastAcq, call, rows, proc, fk, page>>

\* ------------------------------------------------------ foreign-key helper

NoFk == [pc |-> "off"]

\* The tables of the schema besides the referenced one, by their place in
\* the order of their qualified names.
Tables == 1..MaxTables

\* Column names: the referenced column's name and another one.
RefColumn == "itemid"

Columns == {RefColumn, "item_ref"}

\* Values a column holds, and values asked about.
Stored == {1}

Asked == {1, 2}

\* A table: its columns with the values each holds in some row, and the
\* column (or "none") it declares as a foreign key onto the referenced
\* table's RefColumn.
TableShapes ==
    UNION {UNION {{[cols |-> cs, fkcol |-> f, vals |-> v] :
                      v \in [cs -> SUBSET Stored]} :
                  f \in cs \cup {"none"}} :
           cs \in SUBSET Columns}

\* Ascending sequence of a set of tables: sorted(set(...)).
RECURSIVE Sorted(_)
Sorted(S) ==
    IF S = {} THEN <<>>
    ELSE LET lo == CHOOSE x \in S : \A y \in S : x <= y IN
         <<lo>> \o Sorted(S \ {lo})

Range(seq) == {seq[k] : k \in 1..Len(seq)}

\* The frame of check_foreign_key_references(referenced_table, RefColumn,
\* value) on database db: fks is what the introspection query returned, i
\* the loop's position in it.
FkStart(db, value) == [pc |-> "introspect", db |-> db, value |-> value,
                       fks |-> <<>>, i |-> 0, conflicts |-> <<>>,
                       result |-> <<>>]

\* fks = self.fetch_data(fk_sql, ...): one row per foreign-key constraint
\* whose referenced table and column are the arguments.
FkIntrospect ==
    /\ fk.pc = "introspect"
    /\ fk' = [fk EXCEPT
                !.fks = Sorted({tb \in Tables : fk.db[tb].fkcol # "none"}),
                !.i = 1,
                !.pc = "loop"]
    /\ UNCHANGED <<conns, cache, mgr, lastAcq, call, rows, bulk, proc, page>>

\* One turn of the loop: SELECT EXISTS(SELECT 1 FROM schema.table WHERE
\* {referenced_column} = value).  The statement names the referenced
\* column; on a table without a column of that name it fails, and
\* fetch_data raises.
FkProbe ==
    /\ fk.pc = "loop"
    /\ fk.i <= Len(fk.fks)
    /\ LET tb == fk.db[fk.fks[fk.i]] IN
       fk' = IF RefColumn \notin tb.cols
             THEN [fk EXCEPT !.pc = "raised"]
             ELSE IF fk.value \in tb.vals[RefColumn]
             THEN [fk EXCEPT !.conflicts = Append(@, fk.fks[fk.i]),
                             !.i = @ + 1]
             ELSE [fk EXCEPT !.i = @ + 1]
    /\ UNCHANGED <<conns, cache, mgr, lastAcq, call, rows, bulk, proc, page>>

\* return sorted(set(conflicts))
FkReturn ==
    /\ fk.pc = "loop"
    /\ fk.i > Len(fk.fks)
    /\ fk' = [fk EXCEPT !.result = Sorted(Range(fk.conflicts)),
                        !.pc = "done"]
    /\ UNCHANGED <<conns, cache, mgr, lastAcq, call, rows, bulk, proc, page>>

\* ------------------------------------------------------------------- pages

NoPage == [pc |-> "off"]

\* What the pages leave alone: the model of the database layer.
layerVars == <<conns, cache, mgr, lastAcq, call, rows, bulk, proc, fk>>

\* Shelf locations of the map, as locids; a blank text the user may type.
Locs == {"A", "B"}

NoLoc == ""

Blank == " "

Typed == Locs \cup {NoLoc, Blank}

\* str.strip() on the texts above.
StripLoc(x) == IF x = Blank THEN NoLoc ELSE x

\* Items the barcode lookup finds.
Items == {1, 2}

\* The lines of a cart other than line i.
Without(cart, i) ==
    [k \in 1..(Len(cart) - 1) |-> IF k < i THEN cart[k] ELSE cart[k + 1]]

HasItem(cart, it) == \E k \in 1..Len(cart) : cart[k].itemid = it

\* ---- Multi_Declare.py

\* Session state defaults of the Multi-Declare page.  sel is the selection
\* the map widget holds; saved is the shelfentries rows the page inserted,
\* each with the location it went to and (at) the location that was
\* confirmed when its line was added to the cart.  A line's `done` tells
\* that it has been inserted since it was last added; dup, that some line
\* was inserted again after that.
MultiStart == [picked_locid |-> NoLoc, confirmed_locid |-> NoLoc,
               items_cart |-> <<>>, sel |-> NoLoc, saved |-> {},
               dup |-> FALSE]

\* A click on a shelf of the map, which is shown until a location is
\* confirmed: the rerun copies the selection into picked_locid.
MultiMapClick(l) ==
    /\ page.confirmed_locid = NoLoc
    /\ page' = [page EXCEPT !.sel = l, !.picked_locid = l]
    /\ UNCHANGED layerVars

\* "Confirm Location" with `typed` in the text input.  Once a location is
\* confirmed the map is no longer rendered; whether its widget state
\* survives that is Streamlit's business (keep).
MultiConfirm(typed, keep) ==
    /\ page.confirmed_locid = NoLoc
    /\ LET final_loc == StripLoc(IF typed # NoLoc THEN typed
                                 ELSE page.picked_locid) IN
       page' = IF final_loc = NoLoc THEN page
               ELSE [page EXCEPT !.confirmed_locid = final_loc,
                                 !.sel = IF keep THEN @ ELSE NoLoc]
    /\ UNCHANGED layerVars

\* A "New Declare" that would keep the cart.
MultiReset_KeepsCart(pg) ==
    [pg EXCEPT !.picked_locid = pg.sel, !.confirmed_locid = NoLoc]

\* "New Declare": picked_locid, confirmed_locid and items_cart are reset;
\* the rerun shows the map again and copies its selection, if it still has
\* one, into picked_locid.
MultiReset(pg) ==
    [pg EXCEPT !.picked_locid = pg.sel, !.confirmed_locid = NoLoc,
               !.items_cart = <<>>]

MultiNewDeclare ==
    /\ page.confirmed_locid # NoLoc
    /\ page' = MultiReset(page)
    /\ UNCHANGED layerVars

\* add_item_to_cart for an item the lookup found: bump the quantity of its
\* line or append a line.
MultiAdd(it, qty) ==
    /\ page.confirmed_locid # NoLoc
    /\ LET cart == page.items_cart IN
       IF HasItem(cart, it)
       THEN LET k == CHOOSE k \in 1..Len(cart) : cart[k].itemid = it IN
            /\ cart[k].qty + qty <= MaxQty
            /\ page' = [page EXCEPT !.items_cart[k].qty = @ + qty,
                                    !.items_cart[k].done = FALSE]
       ELSE page' = [page EXCEPT !.items_cart =
                        Append(@, [itemid |-> it, qty |-> qty,
                                   at |-> page.confirmed_locid,
                                   done |-> FALSE])]
    /\ UNCHANGED layerVars

\* The quantity input of cart line i (min_value 0).
MultiSetQty(i, q) ==
    /\ page.confirmed_locid # NoLoc
    /\ i \in 1..Len(page.items_cart)
    /\ page.items_cart[i].qty # q
    /\ page' = [page EXCEPT !.items_cart[i].qty = q]
    /\ UNCHANGED layerVars

\* The "Remove" button of cart line i.
MultiRemove(i) ==
    /\ page.confirmed_locid # NoLoc
    /\ i \in 1..Len(page.items_cart)
    /\ page' = [page EXCEPT !.items_cart = Without(@, i)]
    /\ UNCHANGED layerVars

\* "Save All Declarations": insert_declaration for each line of positive
\* quantity, at confirmed_locid.  The first n inserts return; if there are
\* more lines the next insert raises and the run ends there, else the cart
\* is cleared.
MultiSave(n) ==
    /\ page.confirmed_locid # NoLoc
    /\ page.items_cart # <<>>
    /\ LET cart == page.items_cart
           valid_rows == SelectSeq(cart, LAMBDA r : r.qty > 0)
           done == {[itemid |-> valid_rows[k].itemid,
                     locid |-> page.confirmed_locid,
                     at |-> valid_rows[k].at] : k \in 1..n}
           inserted(i) ==
               /\ cart[i].qty > 0
               /\ Cardinality({j \in 1..i : cart[j].qty > 0}) <= n
           again == \E i \in 1..Len(cart) : inserted(i) /\ cart[i].done
           marked == [i \in 1..Len(cart) |->
                        IF inserted(i) THEN [cart[i] EXCEPT !.done = TRUE]
                        ELSE cart[i]] IN
       /\ n <= Len(valid_rows)
       /\ page' = IF valid_rows = <<>> THEN page
                  ELSE IF n = Len(valid_rows)
                  THEN [page EXCEPT !.saved = @ \cup done,
                                    !.dup = @ \/ again,
                                    !.items_cart = <<>>]
                  ELSE [page EXCEPT !.saved = @ \cup done,
                                    !.dup = @ \/ again,
                                    !.items_cart = marked]
    /\ UNCHANGED layerVars

\* ---- test_declare.py

\* Session state defaults of the confirm-then-declare page; sel and saved as
\* above.
DeclareStart == [picked_locid |-> NoLoc, loc_confirmed |-> FALSE,
                 staged_items |-> <<>>, sel |-> NoLoc, saved |-> {},
                 dup |-> FALSE]

\* The top of every script run: the map's selection, if any, is copied into
\* picked_locid.
MapSelection(pg) ==
    IF pg.sel # NoLoc THEN [pg EXCEPT !.picked_locid = pg.sel] ELSE pg

\* A click on a shelf of the map (the map is always shown).
DeclareMapClick(l) ==
    /\ page.sel # l
    /\ page' = MapSelection([page EXCEPT !.sel = l])
    /\ UNCHANGED layerVars

\* "Confirm Location" (always shown) with `typed` in the text input.
DeclareConfirm(typed) ==
    /\ LET pg == MapSelection(page)
           final_locid == IF StripLoc(typed) # NoLoc THEN StripLoc(typed)
                          ELSE pg.picked_locid IN
       page' = IF final_locid = NoLoc THEN pg
               ELSE [pg EXCEPT !.picked_locid = final_locid,
                               !.loc_confirmed = TRUE]
    /\ UNCHANGED layerVars

\* "Change location", shown while the location is locked.
DeclareChange ==
    /\ page.loc_confirmed
    /\ page' = [MapSelection(page) EXCEPT !.loc_confirmed = FALSE,
                                          !.staged_items = <<>>]
    /\ UNCHANGED layerVars

\* "Add to list" for an item the lookup found, then st.rerun().
DeclareAdd(it, qty) ==
    /\ page.loc_confirmed
    /\ LET pg == MapSelection(page)
           staged == pg.staged_items IN
       IF HasItem(staged, it)
       THEN LET k == CHOOSE k \in 1..Len(staged) : staged[k].itemid = it IN
            /\ staged[k].qty + qty <= MaxQty
            /\ page' = [pg EXCEPT !.staged_items[k].qty = @ + qty,
                                  !.staged_items[k].done = FALSE]
       ELSE page' = [pg EXCEPT !.staged_items =
                        Append(@, [itemid |-> it, qty |-> qty,
                                   at |-> pg.picked_locid,
                                   done |-> FALSE])]
    /\ UNCHANGED layerVars

\* The remove button of staged line i.
DeclareRemove(i) ==
    /\ page.loc_confirmed
    /\ i \in 1..Len(page.staged_items)
    /\ page' = [MapSelection(page) EXCEPT !.staged_items = Without(@, i)]
    /\ UNCHANGED layerVars

\* "Clear list".
DeclareClear ==
    /\ page.loc_confirmed
    /\ page.staged_items # <<>>
    /\ page' = [MapSelection(page) EXCEPT !.staged_items = <<>>]
    /\ UNCHANGED layerVars

\* "Confirm ALL declarations": the staged lines go to
\* bulk_insert_declarations with locid = picked_locid; `oks` are the lines
\* whose insert succeeded.  The list is cleared when none failed.
DeclareCommit(oks) ==
    /\ page.loc_confirmed
    /\ page.staged_items # <<>>
    /\ oks \subseteq 1..Len(page.staged_items)
    /\ LET pg == MapSelection(page)
           done == {[itemid |-> pg.staged_items[k].itemid,
                     locid |-> pg.picked_locid,
                     at |-> pg.staged_items[k].at] : k \in oks}
           again == \E k \in oks : pg.staged_items[k].done
           marked == [k \in 1..Len(pg.staged_items) |->
                        IF k \in oks
                        THEN [pg.staged_items[k] EXCEPT !.done = TRUE]
                        ELSE pg.staged_items[k]] IN
       page' = IF oks = 1..Len(pg.staged_items)
               THEN [pg EXCEPT !.saved = @ \cup done,
                               !.dup = @ \/ again,
                               !.staged_items = <<>>]
               ELSE [pg EXCEPT !.saved = @ \cup done,
                               !.dup = @ \/ again,
                               !.staged_items = marked]
    /\ UNCHANGED layerVars

\* ---------------------------------------------------------- specification

\* The process has started; no session has built its handler yet.
Init ==
    /\ conns = [h \in Handles |-> Unborn]
    /\ cache = [s \in Sessions |-> NoConn]
    /\ mgr = [s \in Sessions |-> NoConn]
    /\ lastAcq = [s \in Sessions |-> NoConn]
    /\ call = NoCall
    /\ rows = <<>>
    /\ bulk = NoBulk
    /\ proc \in {ProcStart(hooks) : hooks \in BOOLEAN}
    /\ fk = NoFk
    /\ page = NoPage

\* The sessions build handlers and call fetch_data / execute_command; the
\* server drops connections.
Next ==
    \/ \E s \in Sessions : NewManager(s)
    \/ \E s \in Sessions : BeginCall(s)
    \/ DoEnsureLiveConn
    \/ DoFirstAttempt
    \/ DoFirstCommit
    \/ DoRollbackAndRaise
    \/ DoRebuild
    \/ DoSecondAttempt
    \/ DoSecondCommit
    \/ FinishCall
    \/ \E h \in Handles : DropConn(h)
    \/ \E s \in Sessions : SessionEnd(s)

Spec == Init /\ [][Next]_vars

\* The writer's page has built its handler and calls
\* bulk_insert_declarations with some batch.
InitBulk ==
    /\ conns = [h \in Handles |-> IF h = 1 THEN Opened(Writer) ELSE Unborn]
    /\ cache = [s \in Sessions |-> IF s = Writer THEN 1 ELSE NoConn]
    /\ mgr = [s \in Sessions |-> IF s = Writer THEN 1 ELSE NoConn]
    /\ lastAcq = [s \in Sessions |-> IF s = Writer THEN 1 ELSE NoConn]
    /\ call = NoCall
    /\ rows \in Batches
    /\ bulk = BulkStart
    /\ proc = ProcStart(FALSE)
    /\ fk = NoFk
    /\ page = NoPage

NextBulk ==
    \/ BulkValidate
    \/ BulkAttempt
    \/ RowBegin
    \/ DoEnsureLiveConn
    \/ DoFirstAttempt
    \/ DoFirstCommit
    \/ DoRollbackAndRaise
    \/ DoRebuild
    \/ DoSecondAttempt
    \/ DoSecondCommit
    \/ RowEnd
    \/ BulkReturn
    \/ \E h \in Handles : DropConn(h)

SpecBulk == InitBulk /\ [][NextBulk]_vars

\* ------------------------------------------------- connection manager: C2

Over == call.s # NoSession /\ call.fr.pc \in {"returned", "raised"}

\* C2: two successive acquisitions of one session return the same handle
\* as long as that handle is open and passes the liveness probe; a session
\* is given a different handle only if its previous one died.
C2_SameHandleWhileLive ==
    [][\A s \in Sessions :
          (lastAcq[s] # NoConn /\ lastAcq'[s] # lastAcq[s])
             => ~PassesProbe(conns[lastAcq[s]])]_vars

\* ------------------------------------------------------- query facade: C3

\* C3: a fetch_data call that starts on a connection that is closed, lost
\* or failing the liveness probe, with nothing failing in the database or
\* the connector during the call, returns its rows.
C3_DeadConnectionIsRebuilt ==
    (Over /\ call.fr.op = "fetch" /\ call.fr.start \in {"dead", "aborted"}
          /\ ~call.fr.faulted)
       => call.fr.pc = "returned"

\* ------------------------------------------------------- query facade: C4

\* C4: a call executes its statement at most twice; a second execution
\* happens only after the first attempt ended in a connection error, once,
\* on the connection the handler built; a failure of the second attempt
\* ends the call.
C4_AtMostOneRetry ==
    /\ call.fr.execs <= 2
    /\ call.fr.retries <= 1
    /\ call.fr.retries = 1 =>
          /\ call.fr.first = "transient"
          /\ call.fr.pc \in {"try2", "commit2", "returned", "raised"}
    /\ call.fr.execs = 2 =>
          /\ call.fr.retries = 1
          /\ call.fr.fresh2
          /\ call.fr.pc \in {"commit2", "returned", "raised"}

\* A call whose second attempt failed and whose failure left the call.
C4_SecondFailurePropagates ==
    /\ Over
    /\ call.fr.pc = "raised"
    /\ call.fr.execs = 2
    /\ call.fr.first = "transient"

\* ------------------------------------------------------- query facade: C5

\* C5: a call that ends with a non-connection error of its statement made
\* no execution and no rebuild after that error, and leaves the session's
\* connection rolled back.
C5_PermanentErrorRollsBack ==
    (Over /\ call.fr.pc = "raised" /\ call.fr.permAt # 0)
       => /\ call.fr.execs = call.fr.permAt
          /\ call.fr.retries = call.fr.permAt - 1
          /\ conns[mgr[call.s]].txn = "idle"

\* ------------------------------------------------------- query facade: C6

\* C6: a write that returns is committed, and after a write that raises the
\* session's connection holds no transaction of that write.
C6_CommitOrRollback ==
    (Over /\ call.fr.op = "exec")
       => /\ call.fr.pc = "returned" =>
                call.fr.applied >= 1 /\ ~conns[mgr[call.s]].write
          /\ call.fr.pc = "raised" => ~conns[mgr[call.s]].write


\* check_foreign_key_references is called on some database with some value.
InitFk ==
    /\ conns = [h \in Handles |-> Unborn]
    /\ cache = [s \in Sessions |-> NoConn]
    /\ mgr = [s \in Sessions |-> NoConn]
    /\ lastAcq = [s \in Sessions |-> NoConn]
    /\ call = NoCall
    /\ rows = <<>>
    /\ bulk = NoBulk
    /\ proc = ProcStart(FALSE)
    /\ fk \in {FkStart(db, value) : db \in [Tables -> TableShapes],
                                    value \in Asked}
    /\ page = NoPage

NextFk ==
    \/ FkIntrospect
    \/ FkProbe
    \/ FkReturn

SpecFk == InitFk /\ [][NextFk]_vars

\* A session opens the Multi-Declare page.
InitMulti ==
    /\ conns = [h \in Handles |-> Unborn]
    /\ cache = [s \in Sessions |-> NoConn]
    /\ mgr = [s \in Sessions |-> NoConn]
    /\ lastAcq = [s \in Sessions |-> NoConn]
    /\ call = NoCall
    /\ rows = <<>>
    /\ bulk = NoBulk
    /\ proc = ProcStart(FALSE)
    /\ fk = NoFk
    /\ page = MultiStart

NextMulti ==
    \/ \E l \in Locs : MultiMapClick(l)
    \/ \E typed \in Typed, keep \in BOOLEAN : MultiConfirm(typed, keep)
    \/ MultiNewDeclare
    \/ \E it \in Items, qty \in 1..MaxQty : MultiAdd(it, qty)
    \/ \E i \in 1..Cardinality(Items), q \in 0..MaxQty : MultiSetQty(i, q)
    \/ \E i \in 1..Cardinality(Items) : MultiRemove(i)
    \/ \E n \in 0..Cardinality(Items) : MultiSave(n)

SpecMulti == InitMulti /\ [][NextMulti]_vars

\* A session opens the confirm-then-declare page.
InitDeclare ==
    /\ conns = [h \in Handles |-> Unborn]
    /\ cache = [s \in Sessions |-> NoConn]
    /\ mgr = [s \in Sessions |-> NoConn]
    /\ lastAcq = [s \in Sessions |-> NoConn]
    /\ call = NoCall
    /\ rows = <<>>
    /\ bulk = NoBulk
    /\ proc = ProcStart(FALSE)
    /\ fk = NoFk
    /\ page = DeclareStart

NextDeclare ==
    \/ \E l \in Locs : DeclareMapClick(l)
    \/ \E typed \in Typed : DeclareConfirm(typed)
    \/ DeclareChange
    \/ \E it \in Items, qty \in 1..MaxQty : DeclareAdd(it, qty)
    \/ \E i \in 1..Cardinality(Items) : DeclareRemove(i)
    \/ DeclareClear
    \/ \E oks \in SUBSET (1..Cardinality(Items)) : DeclareCommit(oks)

SpecDeclare == InitDeclare /\ [][NextDeclare]_vars

\* ------------------------------------------- sessions and process: C13..

\* The open connections that were created for session s.
OpenFor(s) == {h \in Handles : conns[h].st = "open" /\ conns[h].owner = s}

\* C13: once a session has ended, no connection created for it is open.
C13_EndedSessionHoldsNothingOpen ==
    \A s \in proc.ended : OpenFor(s) = {}

\* C14: each session has at most one open connection, and no handle is held
\* by two sessions.
C14_OneConnectionPerSession ==
    /\ \A s \in Sessions : Cardinality(OpenFor(s)) <= 1
    /\ \A s1, s2 \in Sessions :
          (s1 # s2 /\ mgr[s1] # NoConn) => mgr[s1] \notin {mgr[s2], cache[s2]}

\* C15: a fetch_data call whose query returned zero rows returns an empty
\* table, not None, and does not raise.
C15_EmptyResultIsEmptyTable ==
    (call.fr.op = "fetch" /\ call.fr.got = 0)
       => /\ call.fr.pc = "returned"
          /\ call.fr.result.kind = "table"
          /\ call.fr.result.nrows = 0

\* A fetch that was retried on a rebuilt connection and found no rows.
C15_EmptyFetchReturned ==
    /\ Over
    /\ call.fr.op = "fetch"
    /\ call.fr.retries = 1
    /\ call.fr.got = 0

\* C19: a call during which the database fails nothing returns, whatever
\* state earlier calls of the session left the connection in.
C19_HealthyCallReturns ==
    (Over /\ ~call.fr.faulted) => call.fr.pc = "returned"

\* C20: no session's connect is refused because another session's end
\* closed the connector while the database is reachable.
C20_ConnectorStaysUsable ==
    proc.refused = NoSession

\* ------------------------------------------------ foreign-key helper: C12

\* C12: check_foreign_key_references returns, sorted and without
\* duplicates, exactly the tables declaring a foreign key onto the
\* referenced column that hold a row whose referencing column equals the
\* value.
C12_ExactlyTheReferencingTables ==
    fk.pc \in {"done", "raised"}
       => /\ fk.pc = "done"
          /\ fk.result =
               Sorted({tb \in Tables :
                         /\ fk.db[tb].fkcol # "none"
                         /\ fk.value \in fk.db[tb].vals[fk.db[tb].fkcol]})

\* ------------------------------------------------------------ pages: C17..

\* C17: on the Multi-Declare page a confirmed location changes only by
\* "New Declare", which resets it together with the cart; so every line of
\* the cart was added under the location now confirmed, and every row saved
\* went to the location that was confirmed when its line was added.
C17_ConfirmedLocationIsFixed ==
    [][/\ (page.confirmed_locid # NoLoc
             /\ page'.confirmed_locid # page.confirmed_locid)
          => (page'.confirmed_locid = NoLoc /\ page'.items_cart = <<>>)
       /\ \A k \in 1..Len(page'.items_cart) :
             page'.items_cart[k].at = page'.confirmed_locid
       /\ \A r \in page'.saved : r.locid = r.at]_vars

\* Rows were saved at one location and, after "New Declare", at another.
C17_SavedAtTwoLocations ==
    /\ page.confirmed_locid # NoLoc
    /\ \E r1, r2 \in page.saved : r1.locid = "A" /\ r2.locid = "B"

\* C18: on the confirm-then-declare page, while the location stays locked
\* no user action changes picked_locid.
C18_LockedLocationIsStable ==
    [][(page.loc_confirmed /\ page'.loc_confirmed)
          => page'.picked_locid = page.picked_locid]_vars

\* -------------------------------------------------------- bulk writer: C1..

\* The batch has been dealt with and the outcome returned.
Done == bulk.pc = "done"

\* Row r of the input passes the three checks of _validate_rows.
PassesChecks(r) ==
    /\ IntOf(r.itemid).ok
    /\ IntOf(IF Truthy(r.qty) THEN r.qty ELSE PyInt(0)).ok
    /\ IntOf(IF Truthy(r.qty) THEN r.qty ELSE PyInt(0)).v > 0
    /\ LocOf(r.locid) # <<>>

NumPassing == Cardinality({i \in 1..Len(rows) : PassesChecks(rows[i])})

AllPass == rows # <<>> /\ NumPassing = Len(rows)

\* The messages of the errors list that are about a failed insert.
RowMsgs == SelectSeq(bulk.errors, LAMBDA m : m.kind = "row")

\* The input rows whose insert raised, in the order of the input.
FailedSrcs ==
    SelectSeq([k \in 1..Len(bulk.outcomes) |->
                 IF bulk.outcomes[k] = "raised" THEN bulk.sent[k].src ELSE 0],
              LAMBDA x : x # 0)

\* C1: when the outcome is returned, ok + failed equals the number of rows
\* that passed validation; a batch whose rows were all rejected has both at
\* zero.
C1_CountsOnlyValidatedRows ==
    Done => bulk.ok + bulk.failed = NumPassing

\* C7: when every row is valid and the database fails no statement, the
\* outcome has ok = number of rows, failed = 0, and no per-row insert was
\* issued.
C7_BulkPathNoFallback ==
    (Done /\ AllPass /\ ~bulk.faulted)
       => /\ bulk.ok = Len(rows)
          /\ bulk.failed = 0
          /\ bulk.sent = <<>>

\* C8 as stated: when every row is valid and the bulk insert fails, the
\* errors list holds exactly one message per failed row, in the order of the
\* input, and nothing else.
C8_OnlyRowMessages ==
    (Done /\ AllPass)
       => /\ Len(bulk.errors) = bulk.failed
          /\ \A k \in 1..Len(bulk.errors) : bulk.errors[k].kind = "row"

\* C8, amended: when every row is valid and the bulk insert fails, the errors
\* list holds the bulk failure's message first and then exactly one message
\* per row whose insert failed, in the order of the input, each quoting its
\* row; every other row counts as a success.
C8_BulkMessageThenOnePerFailedRow ==
    (Done /\ AllPass)
       => /\ bulk.errors = <<Msg("bulk", 0, <<>>)>> \o RowMsgs
          /\ Len(RowMsgs) = Len(FailedSrcs)
          /\ \A k \in 1..Len(RowMsgs) :
                /\ RowMsgs[k].row = FailedSrcs[k]
                /\ RowMsgs[k].vals = Values(bulk.values[FailedSrcs[k]])
          /\ bulk.failed = Len(FailedSrcs)
          /\ bulk.ok = Len(rows) - Len(FailedSrcs)

\* A batch of two valid rows of which the first insert failed and the second
\* succeeded.
C8_SomeRowsFailed ==
    /\ Done /\ AllPass
    /\ Len(rows) = 2
    /\ bulk.outcomes = <<"raised", "returned">>

\* C9: a row passes validation exactly when its itemid is a positive
\* integer, its qty a positive integer and its trimmed locid non-empty; every
\* other row is recorded in the errors list and left out.
C9_ValidationIsExact ==
    bulk.pc \notin {"start"}
       => \A i \in 1..Len(rows) :
             LET wellFormed == /\ IntOf(rows[i].itemid).ok
                               /\ IntOf(rows[i].itemid).v > 0
                               /\ IntOf(rows[i].qty).ok
                               /\ IntOf(rows[i].qty).v > 0
                               /\ LocOf(rows[i].locid) # <<>>
                 kept == \E k \in 1..Len(bulk.values) : bulk.values[k].src = i
                 noted == \E k \in 1..Len(bulk.errors) :
                             /\ bulk.errors[k].kind \in {"itemid", "qty", "locid"}
                             /\ bulk.errors[k].row = i
             IN /\ kept <=> wellFormed
                /\ noted <=> ~wellFormed

\* C10: every insert sent carries a row that passed validation, with that
\* row's parsed values, and the inserts follow the order of the input with
\* no row sent twice.
C10_OnlyValidatedRowsAreSent ==
    /\ \A k \in 1..Len(bulk.sent) :
          LET r == bulk.sent[k] IN
          /\ r.src \in 1..Len(rows)
          /\ PassesChecks(rows[r.src])
          /\ r.itemid = IntOf(rows[r.src].itemid).v
          /\ r.qty = IntOf(rows[r.src].qty).v
          /\ r.locid = LocOf(rows[r.src].locid)
    /\ \A j, k \in 1..Len(bulk.sent) :
          j < k => bulk.sent[j].src < bulk.sent[k].src

\* A batch whose first row was rejected and whose second row was sent.
C10_RejectedRowSkipped ==
    /\ Done
    /\ Len(rows) = 2
    /\ ~PassesChecks(rows[1])
    /\ Len(bulk.sent) = 1
    /\ bulk.sent[1].src = 2


\* The number of inserts of the fallback that ended as `how`.
Ended_As(how) ==
    Cardinality({k \in 1..Len(bulk.outcomes) : bulk.outcomes[k] = how})

C16_RowsHandledOneByOne ==
    /\ Len(bulk.sent) <= Len(bulk.values)
    /\ bulk.sent = SubSeq(bulk.values, 1, Len(bulk.sent))
    /\ (bulk.pc = "rowcall" /\ Over /\ call.fr.pc = "returned")
          => /\ call.fr.applied >= 1
             /\ ~conns[mgr[Writer]].write
    /\ (Done /\ bulk.values # <<>>)
          => /\ bulk.sent = bulk.values
             /\ Len(bulk.outcomes) = Len(bulk.values)
             /\ bulk.ok = Ended_As("returned")
             /\ bulk.failed = Ended_As("raised")

\* The first row's insert failed and a later row was still inserted.
C16_LaterRowInsertedAfterFailure ==
    /\ Done
    /\ Len(bulk.values) >= 2
    /\ bulk.outcomes[1] = "raised"
    /\ bulk.outcomes[Len(bulk.outcomes)] = "returned"
    /\ bulk.ok >= 1


\* ------------------------------------------------------- exactly once: C21

\* C21: an execute_command call that returns has applied its statement to
\* the database exactly once.
C21_AppliedExactlyOnce ==
    (Over /\ call.fr.op = "exec" /\ call.fr.pc = "returned")
       => call.fr.applied = 1

\* C22: no commit or save click inserts again a line whose declaration was
\* already saved, unless the line was staged again in between.
C22_NoLineSavedTwice ==
    ~page.dup

====
